---- MODULE Spec2Model ----
(***************************************************************************)
(* SnapshotDatabaseService of core-snapshots (database-service.ts): the    *)
(* dump / restore / verify / truncate orchestrator, its three per-table    *)
(* stream jobs, the chunked bulk-save of restore and the genesis block     *)
(* fix, as a state machine.  One step of the model is one run of the       *)
(* JavaScript event loop between two suspension points (await, stream      *)
(* event).                                                                 *)
(***************************************************************************)
EXTENDS Integers, Sequences, FiniteSets, TLC

\* ------------------------------------------------------------------ bounds
MaxRows == 3        \* most rows of the blocks table at start
MaxChild == 1       \* most rows of the transactions / rounds table at start
MaxChunk == 2       \* largest configured chunkSize
MaxEvents == 3      \* calls of the service's methods and I/O faults together

\* -------------------------------------------------------------- constants
Tables == {"blocks", "transactions", "rounds"}
Children == {"transactions", "rounds"}
None == "undefined"
KnownCodecs == {"default", "json"}
\* arguments of init: a codec name or undefined, "true" / "false" or undefined
CodecArgs == {None, "bogus"}
SkipArgs == {None, "true", "false"}

\* the identifier recomputed from the network's genesis definition
GenesisId == "genesis"
\* an identifier stored for the genesis block by an older encoding
StaleId == "stale"
\* a previous-record link that matches no record
BadId == "none"
\* the identifier the record keyed h was stored with
IdOf(h) == IF h = 1 THEN GenesisId ELSE ToString(h)

Row(k, i, p) == [key |-> k, id |-> i, prev |-> p]
\* previousEntity before the first record (undefined)
NoEntity == [key |-> None]
\* findFirst()?.height of an empty table (undefined)
NoHeight == 0
\* utils before any setSnapshot
NoFolder == << >>
NoMeta == [written |-> FALSE]
\* what msgpack yields when it decodes bytes that were not written with the
\* schema it reads with (gzip bytes, another codec's layout)
Garbage == Row(0, BadId, BadId)

\* ---------------------------------------------------------------- helpers
RECURSIVE Flatten(_)
Flatten(batches) ==
    IF batches = <<>> THEN <<>> ELSE Head(batches) \o Flatten(Tail(batches))

Reverse(s) == [i \in 1..Len(s) |-> s[Len(s) + 1 - i]]

RECURSIVE InsertByKey(_, _)
InsertByKey(r, s) ==
    IF s = <<>> THEN <<r>>
    ELSE IF r.key < Head(s).key THEN <<r>> \o s
    ELSE <<Head(s)>> \o InsertByKey(r, Tail(s))

\* mutant of OrderedCursor: the cursor without its ORDER BY
UnorderedCursor(rows) == rows

\* repository.createQueryBuilder().orderBy(orderBy, "ASC").stream(): the rows
\* ascending by the ordering column (stable for equal keys)
RECURSIVE OrderedCursor(_)
OrderedCursor(rows) ==
    IF rows = <<>> THEN <<>>
    ELSE InsertByKey(rows[Len(rows)], OrderedCursor(SubSeq(rows, 1, Len(rows) - 1)))

\* mutant of applyGenesisBlockFix: the fix left out
NoGenesisBlockFix(block) == block

\* applyGenesisBlockFix: the block at height 1 gets the recomputed identifier
applyGenesisBlockFix(block) ==
    IF block.key = 1 THEN [block EXCEPT !.id = GenesisId] ELSE block

\* Verifier.verifyBlock / verifyTransaction / verifyRound: the record links
\* to its predecessor; the first record of a table has none
verifyFunction(entity, previousEntity) ==
    /\ entity # Garbage
    /\ previousEntity # NoEntity => entity.prev = previousEntity.id

\* ------------------------------------------------------------------ state
VARIABLES
    codec,            \* this.codec
    skipCompression,  \* this.skipCompression
    chunkSize,        \* configuration "chunkSize"
    db,               \* rows of each table, in insertion order
    snapshot,         \* the folder selected in utils (setSnapshot)
    disk,             \* snapshot directories: folder -> files and metadata
    op,               \* the top-level call in flight
    truncPc,          \* position inside truncate()
    job,              \* the table job of each table
    budget,           \* events the environment may still cause, faults so far
    dumped            \* history: the tables as the latest dump found them

vars == <<codec, skipCompression, chunkSize, db, snapshot, disk, op,
          truncPc, job, budget, dumped>>

\* opened, folder, codec, skip: what the job's pipeline was built from --
\* whether its file stream was created on an existing or new file, the folder
\* of the file's path, the codec name looked up, the compression decision
IdleJob ==
    [kind |-> "none", status |-> "idle", items |-> <<>>, pos |-> 0,
     err |-> "none", entities |-> <<>>, previousEntity |-> NoEntity,
     saves |-> <<>>, checks |-> <<>>, updates |-> 0, ended |-> FALSE,
     opened |-> FALSE, folder |-> NoFolder, codec |-> None, skip |-> FALSE]

\* roundInfo, lastRemainingBlock: argument and local of rollbackChain;
\* result: the block a call returned; built: calls of BlockFactory.fromData;
\* atStart: history of a dump, restore or verify call -- this.codec and
\* this.skipCompression as they were when the call was made;
\* again, onEmpty: history of a truncate call -- whether it follows a
\* truncate that succeeded, and whether it found all three tables empty
IdleOp ==
    [name |-> "none", status |-> "idle", pc |-> "idle", phase |-> 0,
     err |-> None, skip |-> FALSE, meta |-> NoMeta,
     again |-> FALSE, onEmpty |-> FALSE,
     roundInfo |-> NoHeight, lastRemainingBlock |-> NoEntity,
     result |-> NoEntity, built |-> 0,
     atStart |-> [codec |-> "default", skipCompression |-> FALSE]]

NoFile == [exists |-> FALSE]
EmptyDir == [files |-> [t \in Tables |-> NoFile], meta |-> NoMeta]

\* ----------------------------------------------------- the tables at start
\* blocks at heights 1..n; the genesis row may carry a stale identifier; the
\* row at height `broken` may carry a previous-block link that matches nothing
BlockRows(n, stale, broken) ==
    [h \in 1..n |->
        Row(h,
            IF h = 1 /\ stale THEN StaleId ELSE IdOf(h),
            IF h = broken THEN BadId ELSE IF h = 1 THEN BadId ELSE IdOf(h - 1))]

\* child rows keyed 1..n (timestamp, round); their identifiers are never
\* recomputed, so the row keyed 1 carries an identifier other than GenesisId
ChildRows(n) ==
    [k \in 1..n |-> Row(k, IF k = 1 THEN StaleId ELSE IdOf(k),
                           IF k = 1 THEN BadId ELSE IdOf(k - 1))]

\* a snapshot directory left by an earlier run of the node: the dump of a
\* chain that held the genesis block only
StoredFolder == <<1, 1>>
StoredFile(recs) ==
    [exists |-> TRUE, recs |-> recs, gz |-> TRUE, codec |-> "default",
     closed |-> TRUE]
StoredMeta ==
    [written |-> TRUE,
     blocks |-> [count |-> 1, startHeight |-> 1, endHeight |-> 1],
     transactions |-> [count |-> 0, startHeight |-> 1, endHeight |-> 1],
     rounds |-> [count |-> 0, startHeight |-> 1, endHeight |-> 1],
     folder |-> StoredFolder,
     skipCompression |-> FALSE,
     codec |-> "default"]
StoredDisk ==
    StoredFolder :>
        [files |-> [t \in Tables |->
                      IF t = "blocks" THEN StoredFile(BlockRows(1, FALSE, 0))
                      ELSE StoredFile(<<>>)],
         meta |-> StoredMeta]

\* the state after construction, with the configured chunkSize one of sizes
\* and the snapshot directories on disk one of disks
InitWith(sizes, disks) ==
    /\ codec = "default"
    /\ skipCompression = FALSE
    /\ chunkSize \in sizes
    \* n blocks, of variant v: 0 is a sound chain, 1 a stale genesis
    \* identifier, v >= 2 a broken link at height v; one child table is empty
    /\ \E n \in 0..MaxRows, v \in 0..MaxRows, nt \in {0, MaxChild} :
          /\ v <= n
          \* the physical order of a table is not its key order
          /\ db = [t \in Tables |->
                     IF t = "blocks"
                         THEN Reverse(BlockRows(n, v = 1, IF v >= 2 THEN v ELSE 0))
                     ELSE IF t = "transactions" THEN Reverse(ChildRows(nt))
                     ELSE Reverse(ChildRows(MaxChild - nt))]
    /\ snapshot = NoFolder
    /\ disk \in disks
    /\ op = IdleOp
    /\ truncPc = "idle"
    /\ job = [t \in Tables |-> IdleJob]
    /\ budget = [events |-> MaxEvents, faults |-> 0]
    /\ dumped = [rows |-> [t \in Tables |-> <<>>], skip |-> FALSE,
                 complete |-> FALSE, reinit |-> FALSE]

\* chunkSize configured as a positive integer
Init == InitWith({1, MaxChunk}, {<< >>})

\* chunkSize as configuration.getOptional returns it, unvalidated: zero too
InitAnyChunk == InitWith({0, 1}, {<< >>})

\* a node that starts with a snapshot on disk
InitStored == InitWith({MaxChunk}, {StoredDisk})

\* ------------------------------------------------------------ repositories
Heights == {db["blocks"][i].key : i \in 1..Len(db["blocks"])}
Lowest(S) == CHOOSE x \in S : \A y \in S : x <= y
Highest(S) == CHOOSE x \in S : \A y \in S : x >= y
\* snapshotBlockRepository.findFirst()?.height and findLast()?.height
FirstHeight == IF Heights = {} THEN NoHeight ELSE Lowest(Heights)
LastHeight == IF Heights = {} THEN NoHeight ELSE Highest(Heights)

KeysOf(t) == {db[t][i].key : i \in 1..Len(db[t])}
\* mutant of prepareMetaData: each table's range computed from its own rows
OwnRangeMetaData ==
    [written |-> TRUE,
     blocks |-> [count |-> Len(db["blocks"]),
                 startHeight |-> FirstHeight, endHeight |-> LastHeight],
     transactions |->
         [count |-> Len(db["transactions"]),
          startHeight |-> IF KeysOf("transactions") = {} THEN NoHeight
                          ELSE Lowest(KeysOf("transactions")),
          endHeight |-> IF KeysOf("transactions") = {} THEN NoHeight
                        ELSE Highest(KeysOf("transactions"))],
     rounds |->
         [count |-> Len(db["rounds"]),
          startHeight |-> IF KeysOf("rounds") = {} THEN NoHeight
                          ELSE Lowest(KeysOf("rounds")),
          endHeight |-> IF KeysOf("rounds") = {} THEN NoHeight
                        ELSE Highest(KeysOf("rounds"))],
     folder |-> <<FirstHeight, LastHeight>>,
     skipCompression |-> skipCompression,
     codec |-> codec]

\* snapshotBlockRepository.findLast(): the block row of the highest height,
\* undefined when there is none
findLast(rows) ==
    IF rows = <<>> THEN NoEntity
    ELSE LET i == CHOOSE i \in 1..Len(rows) :
                      \A j \in 1..Len(rows) : rows[i].key >= rows[j].key
         IN rows[i]

\* Blocks.BlockFactory.fromData(block)
fromData(block) == [data |-> block]

\* mutant of getLastBlock: the `if (!block) throw` left out
getLastBlockUnchecked(rows) ==
    [err |-> None, block |-> fromData(findLast(rows)), built |-> 1]

\* getLastBlock over the block rows: the error it throws or the block it
\* returns, and how often it called the factory
getLastBlock(rows) ==
    LET block == findLast(rows) IN
    IF block = NoEntity
    THEN [err |-> "Cannot find last block", block |-> NoEntity, built |-> 0]
    ELSE [err |-> None, block |-> fromData(block), built |-> 1]

\* snapshotBlockRepository.rollbackChain(roundInfo): the blocks above the
\* last height of the round are deleted, and the rows that depend on them
RolledBack(rows, height) == SelectSeq(rows, LAMBDA r : r.key <= height)

\* the heights a roundInfo passed to rollbackChain ends at
RoundHeights == {0, MaxRows - 1}

\* prepareMetaData: counts, the block height range for all three tables, the
\* folder name, and the service's own codec and compression flag
prepareMetaData ==
    [written |-> TRUE,
     blocks |-> [count |-> Len(db["blocks"]),
                 startHeight |-> FirstHeight, endHeight |-> LastHeight],
     transactions |-> [count |-> Len(db["transactions"]),
                       startHeight |-> FirstHeight, endHeight |-> LastHeight],
     rounds |-> [count |-> Len(db["rounds"]),
                 startHeight |-> FirstHeight, endHeight |-> LastHeight],
     folder |-> <<FirstHeight, LastHeight>>,
     skipCompression |-> skipCompression,
     codec |-> codec]

\* utils.prepareDir: the selected folder exists afterwards
prepareDir(d, folder) ==
    IF folder \in DOMAIN d THEN d ELSE d @@ (folder :> EmptyDir)

\* getCodec: the lookup of this.codec in the container throws for a name
\* that no codec is bound to
getCodecThrows == codec \notin KnownCodecs

\* mutant of clear: the delete removes one row only
ClearOneRow(rows) == IF rows = <<>> THEN rows ELSE Tail(rows)

\* repository.clear() / delete({}): no row is left; on an empty table it
\* does nothing and does not throw
clear(rows) == <<>>

\* ---------------------------------------------------------- truncate order
\* mutant of TruncateOrder: the parent table first
TruncateOrderBlocksFirst == <<"blocks", "transactions", "rounds">>

\* the order in which truncate empties the tables
TruncateOrder == <<"transactions", "rounds", "blocks">>

TruncateIndex(t) == CHOOSE i \in 1..Len(TruncateOrder) : TruncateOrder[i] = t
TruncateAfter(t) ==
    IF TruncateIndex(t) = Len(TruncateOrder) THEN "done"
    ELSE TruncateOrder[TruncateIndex(t) + 1]

\* ------------------------------------------------------------ environment
Settled == {"idle", "resolved", "rejected", "stalled"}
Quiescent ==
    /\ op.status # "running"
    /\ \A t \in Tables : job[t].status \in Settled

\* the snapshots a caller can pass to restore / verify: folders whose
\* metadata file was written
Snapshots == {f \in DOMAIN disk : disk[f].meta.written}

\* init(codec, skipCompression): at any time, also while a call is in flight
init(c, s) ==
    /\ budget.events > 0
    /\ codec' = IF c = None THEN "default" ELSE c
    /\ skipCompression' = (s = "true")
    /\ budget' = [budget EXCEPT !.events = @ - 1]
    /\ dumped' = [dumped EXCEPT !.reinit = TRUE]
    /\ UNCHANGED <<chunkSize, db, snapshot, disk, op, truncPc, job>>

\* the call record of a method that has just been entered
NewOp(name) ==
    [IdleOp EXCEPT
        !.name = name, !.status = "running", !.pc = "start",
        !.again = name = "truncate" /\ op.name = "truncate"
                      /\ op.status = "resolved",
        !.onEmpty = name = "truncate" /\ \A t \in Tables : db[t] = <<>>,
        !.atStart = IF name \in {"dump", "restore", "verify"}
                    THEN [codec |-> codec, skipCompression |-> skipCompression]
                    ELSE IdleOp.atStart]

\* a top-level call: the caller awaits the previous call, and jobs a failed
\* call has left in flight have run out, before it makes the next one
Call(name, skip, meta) ==
    /\ Quiescent
    /\ budget.events > 0
    /\ budget' = [budget EXCEPT !.events = @ - 1]
    /\ op' = [NewOp(name) EXCEPT !.skip = skip, !.meta = meta]
    /\ UNCHANGED <<codec, skipCompression, chunkSize, db, snapshot, disk>>

\* ---------------------------------------------------------------- truncate
CallTruncate ==
    /\ Call("truncate", FALSE, NoMeta)
    /\ job' = [t \in Tables |-> IdleJob]
    /\ truncPc' = "count"
    /\ UNCHANGED dumped

\* the three count() calls of the log line
TruncateCount ==
    /\ truncPc = "count"
    /\ truncPc' = TruncateOrder[1]
    /\ UNCHANGED <<codec, skipCompression, chunkSize, db, snapshot, disk, op,
                   job, budget, dumped>>

\* a repository call of truncate throws: truncate, and restore if it is the
\* caller, are rejected
TruncateFault ==
    /\ truncPc \in Tables
    /\ budget.events > 0
    /\ budget' = [events |-> budget.events - 1, faults |-> budget.faults + 1]
    /\ truncPc' = "failed"
    /\ op' = [op EXCEPT !.status = "rejected", !.err = "truncate"]
    /\ UNCHANGED <<codec, skipCompression, chunkSize, db, snapshot, disk, job,
                   dumped>>

\* ------------------------------------------------ getLastBlock, rollbackChain
\* a call of a method may start: the previous call has settled
Enter ==
    /\ Quiescent
    /\ budget.events > 0
    /\ budget' = [budget EXCEPT !.events = @ - 1]

\* getLastBlock(): findLast, then the factory or the throw
CallGetLastBlock ==
    /\ Enter
    /\ LET last == getLastBlock(db["blocks"]) IN
       op' = [NewOp("getLastBlock") EXCEPT
                !.status = IF last.err = None THEN "resolved" ELSE "rejected",
                !.pc = "done",
                !.err = last.err,
                !.result = last.block,
                !.built = last.built]
    /\ job' = [t \in Tables |-> IdleJob]
    /\ UNCHANGED <<codec, skipCompression, chunkSize, db, snapshot, disk,
                   truncPc, dumped>>

\* rollbackChain(roundInfo) up to its second await: the first getLastBlock
\* throws out of it when there is no block
CallRollbackChain ==
    /\ Enter
    /\ \E height \in RoundHeights :
       LET last == getLastBlock(db["blocks"]) IN
       op' = [NewOp("rollbackChain") EXCEPT
                !.roundInfo = height,
                !.status = IF last.err = None THEN "running" ELSE "rejected",
                !.pc = IF last.err = None THEN "rollbackChain" ELSE "getLastBlock",
                !.err = last.err,
                !.lastRemainingBlock = last.block,
                !.built = last.built]
    /\ job' = [t \in Tables |-> IdleJob]
    /\ UNCHANGED <<codec, skipCompression, chunkSize, db, snapshot, disk,
                   truncPc, dumped>>

\* await this.snapshotBlockRepository.rollbackChain(roundInfo)
RollbackChainStep ==
    /\ op.name = "rollbackChain" /\ op.status = "running"
    /\ op.pc = "rollbackChain"
    /\ db' = [t \in Tables |-> RolledBack(db[t], op.roundInfo)]
    /\ op' = [op EXCEPT !.pc = "return"]
    /\ UNCHANGED <<codec, skipCompression, chunkSize, snapshot, disk, truncPc,
                   job, budget, dumped>>

\* mutant of RollbackResult: the block fetched before the rollback is returned
RollbackResultStale(before, rows) ==
    [err |-> None, block |-> before, built |-> 0]

\* `return this.getLastBlock()`: the last block is fetched again
RollbackResult(before, rows) == getLastBlock(rows)

RollbackReturn ==
    /\ op.name = "rollbackChain" /\ op.status = "running"
    /\ op.pc = "return"
    /\ LET last == RollbackResult(op.lastRemainingBlock, db["blocks"]) IN
       op' = [op EXCEPT
                !.status = IF last.err = None THEN "resolved" ELSE "rejected",
                !.pc = "done",
                !.err = last.err,
                !.result = last.block,
                !.built = @ + last.built]
    /\ UNCHANGED <<codec, skipCompression, chunkSize, db, snapshot, disk,
                   truncPc, job, budget, dumped>>

\* ------------------------------------------------------------ read streams
\* a file as the write pipeline leaves it: the records in file order, whether
\* the gzip stage was in the pipeline, the codec that encoded them, and
\* whether the sink was closed
NewFile(gz, c) ==
    [exists |-> TRUE, recs |-> <<>>, gz |-> gz, codec |-> c, closed |-> FALSE]

SnapshotFile(t) ==
    IF snapshot \in DOMAIN disk THEN disk[snapshot].files[t] ELSE NoFile

\* getReadStream(table): what the decode stream at the end of the pipeline
\* fs.createReadStream -> [gunzip unless this.skipCompression] -> msgpack
\* decode delivers.  err is how the sequence ends: "none" (end of stream),
\* "decode" (the decode stream itself fails: the iteration throws),
\* "upstream" (the file stream or gunzip fails: pipe() forwards neither the
\* error nor the end, the iteration never finishes), "throw" (getCodec threw
\* inside getReadStream)
getReadStream(t) ==
    LET f == SnapshotFile(t) IN
    IF getCodecThrows THEN {[items |-> <<>>, err |-> "throw"]}
    ELSE IF ~f.exists THEN {[items |-> <<>>, err |-> "upstream"]}
    ELSE IF ~f.gz /\ ~skipCompression
        \* gunzip of bytes that are not gzip: incorrect header check
        THEN {[items |-> <<>>, err |-> "upstream"]}
    ELSE IF (f.gz /\ skipCompression) \/ f.codec # codec
        \* msgpack over foreign bytes: some value, then end or a decode error
        THEN {[items |-> <<Garbage>>, err |-> e] : e \in {"none", "decode"}}
    ELSE IF ~f.closed
        \* a file whose dump never finished: gzip lacks its trailer
        THEN {[items |-> f.recs, err |-> IF f.gz THEN "upstream" ELSE "none"]}
    ELSE {[items |-> f.recs, err |-> "none"]}

\* the job of restoreTable / verifyTable right after getReadStream and
\* progressDispatcher.start.  getReadStream calls fs.createReadStream on the
\* path in the selected folder first, then getCodec, then reads
\* this.skipCompression
ReadJob(kind, t, stream) ==
    [IdleJob EXCEPT !.kind = kind,
                    !.status = IF stream.err = "throw" THEN "rejected" ELSE "running",
                    !.items = stream.items,
                    !.err = stream.err,
                    !.opened = SnapshotFile(t).exists,
                    !.folder = snapshot,
                    !.codec = codec,
                    !.skip = IF stream.err = "throw" THEN FALSE
                             ELSE skipCompression]

\* ----------------------------------------------------------------- restore
\* mutant of RestorePhases: all three tables restored concurrently
RestoreAllAtOnce == << {"blocks", "transactions", "rounds"} >>

\* restore after truncate: blocks alone and awaited, then transactions and
\* rounds under one Promise.all
RestorePhases == << {"blocks"}, {"transactions", "rounds"} >>

FirstOf(S) ==
    IF "blocks" \in S THEN "blocks"
    ELSE IF "transactions" \in S THEN "transactions" ELSE "rounds"

\* the restoreTable calls of phase i run up to their first await: each opens
\* its read stream; a call that throws rejects the phase at once
RestoreEnter(i, j0) ==
    \E streams \in [RestorePhases[i] -> UNION {getReadStream(t) : t \in Tables}] :
        /\ \A t \in RestorePhases[i] : streams[t] \in getReadStream(t)
        /\ job' = [t \in Tables |->
                     IF t \in RestorePhases[i] THEN ReadJob("restore", t, streams[t])
                     ELSE j0[t]]
        /\ LET thrown == {t \in RestorePhases[i] : streams[t].err = "throw"} IN
           op' = IF thrown = {} THEN [op EXCEPT !.pc = "restoreTable", !.phase = i]
                 ELSE [op EXCEPT !.pc = "restoreTable", !.phase = i,
                                 !.status = "rejected", !.err = FirstOf(thrown)]

\* mutant of AwaitRejects: the failure of an awaited job is swallowed
AwaitSwallows(status) == FALSE

\* `await` of a rejected restoreTable promise throws out of restore
AwaitRejects(status) == status = "rejected"

\* what follows when table t's restore job takes the step that leaves it jr
RestoreSettle(t, jr) ==
    LET j1 == [job EXCEPT ![t] = jr] IN
    IF AwaitRejects(jr.status)
    THEN /\ job' = j1
         /\ op' = IF op.status = "running"
                  THEN [op EXCEPT !.status = "rejected", !.err = t] ELSE op
    ELSE IF /\ jr.status = "resolved"
            /\ op.status = "running"
            /\ \A u \in RestorePhases[op.phase] : j1[u].status = "resolved"
    THEN IF op.phase = Len(RestorePhases)
         THEN job' = j1 /\ op' = [op EXCEPT !.status = "resolved", !.pc = "done"]
         ELSE RestoreEnter(op.phase + 1, j1)
    ELSE job' = j1 /\ UNCHANGED op

CallRestore ==
    /\ \E f \in Snapshots : Call("restore", FALSE, disk[f].meta)
    /\ job' = [t \in Tables |-> IdleJob]
    /\ truncPc' = "count"
    /\ UNCHANGED dumped

\* truncate empties the table its position names; after the last one its
\* caller goes on: truncate() resolves, restore enters its first phase
TruncateStep(t) ==
    /\ truncPc = t
    /\ op.status = "running"
    /\ db' = [db EXCEPT ![t] = clear(@)]
    /\ truncPc' = TruncateAfter(t)
    /\ IF TruncateAfter(t) # "done" THEN UNCHANGED <<op, job>>
       ELSE IF op.name = "truncate"
            THEN op' = [op EXCEPT !.status = "resolved", !.pc = "done"]
                 /\ UNCHANGED job
       ELSE RestoreEnter(1, job)
    /\ UNCHANGED <<codec, skipCompression, chunkSize, snapshot, disk, budget, dumped>>

\* one turn of the for-await loop: the record is fixed and pushed; a full
\* buffer goes to saveValues, otherwise the progress update ends the turn
RestoreRead(t) ==
    /\ job[t].kind = "restore" /\ job[t].status = "running"
    /\ job[t].pos < Len(job[t].items)
    /\ LET entity == job[t].items[job[t].pos + 1]
           fixed == IF t = "blocks" THEN applyGenesisBlockFix(entity) ELSE entity
           entities == Append(job[t].entities, fixed)
       IN job' = [job EXCEPT ![t] =
                    IF Len(entities) = chunkSize
                    THEN [@ EXCEPT !.pos = @ + 1, !.entities = entities,
                                   !.status = "saving"]
                    ELSE [@ EXCEPT !.pos = @ + 1, !.entities = entities,
                                   !.updates = @ + 1]]
    /\ UNCHANGED <<codec, skipCompression, chunkSize, db, snapshot, disk, op,
                   truncPc, budget, dumped>>

\* saveValues of a full buffer: repository.save inserts the batch, the buffer
\* is replaced by an empty one and the progress update ends the turn; a save
\* that throws inserts nothing and rejects the job
RestoreSave(t) ==
    /\ job[t].kind = "restore" /\ job[t].status = "saving"
    /\ \/ /\ db' = [db EXCEPT ![t] = @ \o job[t].entities]
          /\ job' = [job EXCEPT ![t] =
                       [@ EXCEPT !.saves = Append(@, job[t].entities),
                                 !.entities = <<>>,
                                 !.updates = @ + 1,
                                 !.status = "running"]]
          /\ UNCHANGED <<op, budget>>
       \/ /\ budget.events > 0
          /\ budget' = [events |-> budget.events - 1, faults |-> budget.faults + 1]
          /\ RestoreSettle(t, [job[t] EXCEPT !.status = "rejected"])
          /\ UNCHANGED db
    /\ UNCHANGED <<codec, skipCompression, chunkSize, snapshot, disk, truncPc, dumped>>

\* mutant of TailPending: the partial buffer left at the end is not saved
TailDropped(entities) == FALSE

\* `if (entities.length)` after the loop
TailPending(entities) == Len(entities) # 0

\* the sequence ended: a partial buffer is saved first, then
\* progressDispatcher.end and the job resolves
RestoreEnd(t) ==
    /\ job[t].kind = "restore" /\ job[t].status = "running"
    /\ job[t].pos = Len(job[t].items) /\ job[t].err = "none"
    /\ IF TailPending(job[t].entities)
       THEN /\ job' = [job EXCEPT ![t] = [@ EXCEPT !.status = "tail"]]
            /\ UNCHANGED op
       ELSE RestoreSettle(t, [job[t] EXCEPT !.status = "resolved", !.ended = TRUE])
    /\ UNCHANGED <<codec, skipCompression, chunkSize, db, snapshot, disk,
                   truncPc, budget, dumped>>

\* saveValues of the partial buffer; the buffer is not replaced afterwards
RestoreTail(t) ==
    /\ job[t].kind = "restore" /\ job[t].status = "tail"
    /\ \/ /\ db' = [db EXCEPT ![t] = @ \o job[t].entities]
          /\ RestoreSettle(t, [job[t] EXCEPT !.saves = Append(@, job[t].entities),
                                             !.status = "resolved",
                                             !.ended = TRUE])
          /\ UNCHANGED budget
       \/ /\ budget.events > 0
          /\ budget' = [events |-> budget.events - 1, faults |-> budget.faults + 1]
          /\ RestoreSettle(t, [job[t] EXCEPT !.status = "rejected"])
          /\ UNCHANGED db
    /\ UNCHANGED <<codec, skipCompression, chunkSize, snapshot, disk, truncPc, dumped>>

\* the stream fails where its items end: an error of the decode stream
\* throws out of the loop and rejects the job; an error further up never
\* reaches the loop, which waits for ever
RestoreStreamError(t) ==
    /\ job[t].kind = "restore" /\ job[t].status = "running"
    /\ job[t].pos = Len(job[t].items) /\ job[t].err \in {"decode", "upstream"}
    /\ RestoreSettle(t, [job[t] EXCEPT !.status =
                            IF job[t].err = "decode" THEN "rejected" ELSE "stalled"])
    /\ UNCHANGED <<codec, skipCompression, chunkSize, db, snapshot, disk,
                   truncPc, budget, dumped>>

\* an I/O fault while the file is read: the stream ends early with an error
ReadFault(t) ==
    /\ job[t].kind \in {"restore", "verify"} /\ job[t].status = "running"
    /\ job[t].pos < Len(job[t].items)
    /\ budget.events > 0
    /\ budget' = [events |-> budget.events - 1, faults |-> budget.faults + 1]
    /\ \E e \in {"decode", "upstream"} :
          job' = [job EXCEPT ![t] =
                    [@ EXCEPT !.items = SubSeq(@, 1, job[t].pos), !.err = e]]
    /\ UNCHANGED <<codec, skipCompression, chunkSize, db, snapshot, disk, op,
                   truncPc, dumped>>

\* ------------------------------------------------------------------ verify
\* mutant of PromiseAllRejected: the aggregate waits for every job to settle
RejectedWhenAllSettled(j, S) ==
    /\ \A t \in S : j[t].status \in {"resolved", "rejected"}
    /\ \E t \in S : j[t].status = "rejected"

\* Promise.all over the jobs S rejects as soon as one of them rejects
PromiseAllRejected(j, S) == \E t \in S : j[t].status = "rejected"

\* what follows when table t's verify job takes the step that leaves it jr
VerifySettle(t, jr) ==
    LET j1 == [job EXCEPT ![t] = jr] IN
    /\ job' = j1
    /\ op' = IF op.status # "running" THEN op
             ELSE IF PromiseAllRejected(j1, Tables)
                  THEN [op EXCEPT !.status = "rejected", !.err = t]
             ELSE IF \A u \in Tables : j1[u].status = "resolved"
                  THEN [op EXCEPT !.status = "resolved", !.pc = "done"]
             ELSE op

\* verify(meta): the three verifyTable calls run up to their first await,
\* each opens its read stream; if getCodec throws in them, Promise.all
\* rejects with the first
CallVerify ==
    /\ Quiescent
    /\ budget.events > 0
    /\ budget' = [budget EXCEPT !.events = @ - 1]
    /\ \E f \in Snapshots :
       \E streams \in [Tables -> UNION {getReadStream(t) : t \in Tables}] :
          /\ \A t \in Tables : streams[t] \in getReadStream(t)
          /\ job' = [t \in Tables |-> ReadJob("verify", t, streams[t])]
          /\ LET thrown == {t \in Tables : streams[t].err = "throw"} IN
             op' = [NewOp("verify") EXCEPT
                      !.status = IF thrown = {} THEN "running" ELSE "rejected",
                      !.pc = "verifyTable",
                      !.err = IF thrown = {} THEN None ELSE FirstOf(thrown),
                      !.meta = disk[f].meta]
    /\ UNCHANGED <<codec, skipCompression, chunkSize, db, snapshot, disk,
                   truncPc, dumped>>

\* mutant of Rejects: a record the predicate refuses does not stop the job
NeverRejects(isVerified) == FALSE

\* `if (!isVerified) throw`
Rejects(isVerified) == ~isVerified

\* mutant of NextPrevious: the slot is never updated
StalePrevious(entity, previousEntity) == previousEntity

\* `previousEntity = entity` at the end of a turn
NextPrevious(entity, previousEntity) == entity

\* one turn of the for-await loop: progress update, genesis fix, the
\* predicate on (entity, previousEntity); a refusal throws
VerifyRead(t) ==
    /\ job[t].kind = "verify" /\ job[t].status = "running"
    /\ job[t].pos < Len(job[t].items)
    /\ LET entity == job[t].items[job[t].pos + 1]
           fixed == IF t = "blocks" THEN applyGenesisBlockFix(entity) ELSE entity
           isVerified == verifyFunction(fixed, job[t].previousEntity)
           jr == [job[t] EXCEPT
                    !.pos = @ + 1,
                    !.updates = @ + 1,
                    !.checks = Append(@, [entity |-> fixed,
                                          previous |-> job[t].previousEntity,
                                          isVerified |-> isVerified])]
       IN IF Rejects(isVerified)
          THEN VerifySettle(t, [jr EXCEPT !.status = "rejected"])
          ELSE VerifySettle(t, [jr EXCEPT !.previousEntity =
                                   NextPrevious(fixed, job[t].previousEntity)])
    /\ UNCHANGED <<codec, skipCompression, chunkSize, db, snapshot, disk,
                   truncPc, budget, dumped>>

\* the sequence ended: progressDispatcher.end and the job resolves
VerifyEnd(t) ==
    /\ job[t].kind = "verify" /\ job[t].status = "running"
    /\ job[t].pos = Len(job[t].items) /\ job[t].err = "none"
    /\ VerifySettle(t, [job[t] EXCEPT !.status = "resolved", !.ended = TRUE])
    /\ UNCHANGED <<codec, skipCompression, chunkSize, db, snapshot, disk,
                   truncPc, budget, dumped>>

VerifyStreamError(t) ==
    /\ job[t].kind = "verify" /\ job[t].status = "running"
    /\ job[t].pos = Len(job[t].items) /\ job[t].err \in {"decode", "upstream"}
    /\ VerifySettle(t, [job[t] EXCEPT !.status =
                           IF job[t].err = "decode" THEN "rejected" ELSE "stalled"])
    /\ UNCHANGED <<codec, skipCompression, chunkSize, db, snapshot, disk,
                   truncPc, budget, dumped>>

\* -------------------------------------------------------------------- dump
\* mutant of PromiseAllResolved: the aggregate settles with the first job
ResolvedWithFirst(j, S) == \E t \in S : j[t].status = "resolved"

\* Promise.all over the jobs S resolves when every one of them has resolved
PromiseAllResolved(j, S) == \A t \in S : j[t].status = "resolved"

\* dump(options)
CallDump ==
    /\ \E skip \in BOOLEAN : Call("dump", skip, NoMeta)
    /\ job' = [t \in Tables |-> IdleJob]
    /\ dumped' = [rows |-> db, skip |-> op'.skip, complete |-> FALSE,
                  reinit |-> FALSE]
    /\ UNCHANGED truncPc

\* prepareMetaData, setSnapshot, prepareDir, and the three dumpTable
\* promises are created; each executor stops at its first await
DumpPrepare ==
    /\ op.name = "dump" /\ op.status = "running" /\ op.pc = "start"
    /\ LET metaData == prepareMetaData IN
       /\ snapshot' = metaData.folder
       /\ disk' = prepareDir(disk, metaData.folder)
       /\ op' = [op EXCEPT !.pc = "dumpTable", !.meta = metaData]
    /\ job' = [t \in Tables |-> [IdleJob EXCEPT !.kind = "dump", !.status = "starting"]]
    /\ UNCHANGED <<codec, skipCompression, chunkSize, db, truncPc, budget,
                   dumped>>

\* the executor of dumpTable after progressDispatcher.start: the ordered
\* cursor is opened, then getWriteStream creates the file sink (the file is
\* created or emptied), looks the codec up and pipes cursor -> encode ->
\* [gzip unless options.skipCompression] -> sink.  If getCodec throws, the
\* async executor's own promise rejects; the job's promise is left pending
DumpOpen(t) ==
    /\ job[t].kind = "dump" /\ job[t].status = "starting"
    /\ disk' = [disk EXCEPT ![snapshot].files[t] = NewFile(~op.skip, codec)]
    /\ job' = [job EXCEPT ![t] =
                 IF getCodecThrows
                 THEN [@ EXCEPT !.status = "stalled", !.err = "throw",
                                !.opened = TRUE, !.folder = snapshot,
                                !.codec = codec]
                 ELSE [@ EXCEPT !.status = "running",
                                !.items = OrderedCursor(db[t]),
                                !.opened = TRUE, !.folder = snapshot,
                                !.codec = codec, !.skip = op.skip]]
    /\ UNCHANGED <<codec, skipCompression, chunkSize, db, snapshot, op,
                   truncPc, budget, dumped>>

\* the cursor emits a row: progress update, and the row reaches the file
DumpRow(t) ==
    /\ job[t].kind = "dump" /\ job[t].status = "running"
    /\ job[t].pos < Len(job[t].items)
    /\ disk' = [disk EXCEPT ![snapshot].files[t].recs =
                                Append(@, job[t].items[job[t].pos + 1])]
    /\ job' = [job EXCEPT ![t] = [@ EXCEPT !.pos = @ + 1, !.updates = @ + 1]]
    /\ UNCHANGED <<codec, skipCompression, chunkSize, db, snapshot, op,
                   truncPc, budget, dumped>>

\* the cursor ended and every stage passed the end on: the sink emits
\* 'close', the only event dumpTable listens to; progressDispatcher.end and
\* resolve.  The continuation of dump runs when Promise.all resolves
DumpClose(t) ==
    /\ job[t].kind = "dump" /\ job[t].status = "running"
    /\ job[t].pos = Len(job[t].items)
    /\ disk' = [disk EXCEPT ![snapshot].files[t].closed = TRUE]
    /\ LET j1 == [job EXCEPT ![t] = [@ EXCEPT !.status = "resolved", !.ended = TRUE]]
       IN /\ job' = j1
          /\ op' = IF op.status = "running" /\ op.pc = "dumpTable"
                      /\ PromiseAllResolved(j1, Tables)
                   THEN [op EXCEPT !.pc = "writeMetaData"] ELSE op
    /\ UNCHANGED <<codec, skipCompression, chunkSize, db, snapshot, truncPc,
                   budget, dumped>>

\* a stage of the write pipeline (cursor, encode, gzip, sink) emits 'error':
\* dumpTable has no error listener and pipe() forwards neither the error nor
\* the end, so 'close' is never emitted and the promise is never settled
DumpStageError(t) ==
    /\ job[t].kind = "dump" /\ job[t].status = "running"
    /\ budget.events > 0
    /\ budget' = [events |-> budget.events - 1, faults |-> budget.faults + 1]
    /\ job' = [job EXCEPT ![t] = [@ EXCEPT !.status = "stalled", !.err = "stage"]]
    /\ UNCHANGED <<codec, skipCompression, chunkSize, db, snapshot, disk, op,
                   truncPc, dumped>>

\* utils.writeMetaData(metaData), and dump resolves
DumpWriteMetaData ==
    /\ op.name = "dump" /\ op.status = "running" /\ op.pc = "writeMetaData"
    /\ disk' = [disk EXCEPT ![snapshot].meta = op.meta]
    /\ op' = [op EXCEPT !.status = "resolved", !.pc = "done"]
    /\ dumped' = [dumped EXCEPT !.complete = TRUE]
    /\ UNCHANGED <<codec, skipCompression, chunkSize, db, snapshot, truncPc,
                   job, budget>>

\* ----------------------------------------------------------- specification
Next ==
    \/ \E c \in CodecArgs, s \in SkipArgs : init(c, s)
    \/ CallTruncate
    \/ CallDump
    \/ CallRestore
    \/ CallVerify
    \/ CallGetLastBlock
    \/ CallRollbackChain
    \/ RollbackChainStep
    \/ RollbackReturn
    \/ TruncateCount
    \/ TruncateFault
    \/ DumpPrepare
    \/ DumpWriteMetaData
    \/ \E t \in Tables :
          \/ TruncateStep(t)
          \/ RestoreRead(t)
          \/ RestoreSave(t)
          \/ RestoreEnd(t)
          \/ RestoreTail(t)
          \/ RestoreStreamError(t)
          \/ ReadFault(t)
          \/ VerifyRead(t)
          \/ VerifyEnd(t)
          \/ VerifyStreamError(t)
          \/ DumpOpen(t)
          \/ DumpRow(t)
          \/ DumpClose(t)
          \/ DumpStageError(t)

Spec == Init /\ [][Next]_vars

\* the same service under a configuration that is not validated
SpecAnyChunk == InitAnyChunk /\ [][Next]_vars

\* the same service started next to a snapshot of an earlier run
SpecStored == InitStored /\ [][Next]_vars

\* ------------------------------------------------------------- properties
CeilDiv(r, c) == (r + c - 1) \div c
\* a record without its identifier
StripId(r) == [key |-> r.key, prev |-> r.prev]
StripIds(rs) == [i \in 1..Len(rs) |-> StripId(rs[i])]
Restoring(t) == op.name = "restore" /\ job[t].kind = "restore"
Verifying(t) == op.name = "verify" /\ job[t].kind = "verify"
Dumping(t) == op.name = "dump" /\ job[t].kind = "dump"

\* C1: in restore, no table job exists and nothing is bulk-saved before
\* truncate has emptied all three tables; the transactions and the rounds job
\* exist only once the blocks job has resolved with every record of its file
\* flushed, the partial last chunk included; what the tables hold is what the
\* jobs saved.
C1_RestorePhasesOrdered ==
    op.name = "restore" =>
        /\ truncPc # "done" => \A t \in Tables : job[t].kind = "none"
        /\ truncPc = "done" => \A t \in Tables : db[t] = Flatten(job[t].saves)
        /\ \A c \in Children :
              job[c].kind # "none" =>
                  /\ job["blocks"].status = "resolved"
                  /\ job["blocks"].ended
                  /\ Len(Flatten(job["blocks"].saves)) = Len(job["blocks"].items)
                  /\ Len(db["blocks"]) = Len(job["blocks"].items)

\* C1 witness: blocks were restored with a partial last chunk, and a child
\* table has received a bulk-save while the other child job is still running
C1_Witness ==
    /\ op.name = "restore"
    /\ Len(job["blocks"].saves) >= 2
    /\ Len(job["blocks"].saves[Len(job["blocks"].saves)]) < chunkSize
    /\ \E c \in Children, d \in Children :
          /\ c # d
          /\ job[c].saves # <<>>
          /\ job[d].status = "running"

\* C2: in a dump, writeMetaData is reached, and the metadata of this dump is
\* on disk, only when all three table jobs have resolved with their sink
\* closed; while a job is unresolved (running, or failed and pending) the
\* dump has not invoked writeMetaData.
C2_MetaDataAfterAllJobs ==
    op.name = "dump" =>
        /\ (op.pc \in {"writeMetaData", "done"} \/ dumped.complete
            \/ op.status = "resolved") =>
              \A t \in Tables :
                  /\ job[t].status = "resolved"
                  /\ disk[snapshot].files[t].closed
        /\ op.status = "resolved" => disk[snapshot].meta = op.meta

\* C2 witness: a dump has written its metadata after three resolved jobs,
\* one of which wrote records
C2_Witness ==
    /\ op.name = "dump" /\ op.status = "resolved"
    /\ disk[snapshot].meta.written
    /\ Len(disk[snapshot].files["blocks"].recs) >= 2
    /\ \A t \in Tables : job[t].status = "resolved"

\* C3 (as claimed): a table's dump job in whose pipeline a stage raised an
\* error is rejected, and the dump has failed with it.
C3_StageErrorRejectsDump ==
    \A t \in Tables :
        (Dumping(t) /\ job[t].err = "stage") =>
            /\ job[t].status = "rejected"
            /\ op.status = "rejected"

\* C4: a restore job that ran to the end of a file of R records with chunk
\* size C made ceil(R / C) bulk-save calls, none empty, all but the last of C
\* records, the last of R mod C (or C) records, which concatenated are the
\* file's records in file order; while it runs, the saved batches and the
\* buffer are the records read so far.
C4_ChunkedRestore ==
    \A t \in Tables :
        Restoring(t) =>
            LET R == Len(job[t].items)
                C == chunkSize
                calls == job[t].saves
                n == Len(calls)
            IN /\ \A i \in 1..n : Len(calls[i]) >= 1
               /\ \A i \in 1..(n - 1) : Len(calls[i]) = C
               /\ job[t].status \in {"running", "saving", "tail"} =>
                     /\ \A i \in 1..n : Len(calls[i]) = C
                     /\ StripIds(Flatten(calls) \o job[t].entities)
                            = StripIds(SubSeq(job[t].items, 1, job[t].pos))
               /\ job[t].status = "resolved" =>
                     /\ n = CeilDiv(R, C)
                     /\ n >= 1 =>
                           Len(calls[n]) = IF R % C = 0 THEN C ELSE R % C
                     /\ StripIds(Flatten(calls)) = StripIds(job[t].items)

\* C4 witness: a finished restore of three records in chunks of two
C4_Witness ==
    \E t \in Tables :
        /\ Restoring(t) /\ job[t].status = "resolved"
        /\ Len(job[t].items) = 3 /\ chunkSize = 2
        /\ Len(job[t].saves) = 2
        /\ Len(job[t].saves[2]) = 1

\* the rows of a table compared with the identifier of the block at height
\* 1 left aside
IsAscending(rows) == \A i \in 1..(Len(rows) - 1) : rows[i].key < rows[i + 1].key
AsideGenesisId(t, r) ==
    IF t = "blocks" /\ r.key = 1 THEN StripId(r) ELSE r
RowsOf(t, rows) == {AsideGenesisId(t, rows[i]) : i \in 1..Len(rows)}
RoundTrip(t) ==
    /\ IsAscending(db[t])
    /\ Len(db[t]) = Len(dumped.rows[t])
    /\ RowsOf(t, db[t]) = RowsOf(t, dumped.rows[t])

\* C5 (as claimed): restoring the snapshot a completed dump has written, on
\* the same service with its settings untouched and no I/O fault, neither
\* fails nor hangs, and leaves every table ascending by its ordering column
\* with the rows the dump found, the identifier of the block at height 1
\* aside -- whatever the service's skipCompression flag and the dump's
\* skipCompression option are.
C5_RoundTripAnyFlags ==
    (/\ op.name = "restore"
     /\ op.meta.folder = snapshot
     /\ dumped.complete /\ ~dumped.reinit
     /\ budget.faults = 0) =>
        /\ op.status # "rejected"
        /\ \A t \in Tables : job[t].status # "stalled"
        /\ op.status = "resolved" => \A t \in Tables : RoundTrip(t)

\* C6: in a verify job the predicate has been called once for each record
\* consumed and one progress update was signalled for each; only the last
\* call can have returned false, and then the job is rejected: nothing is
\* consumed, checked or signalled after the first refusal.
C6_VerifyStopsAtFirstRefusal ==
    \A t \in Tables :
        Verifying(t) =>
            LET k == Len(job[t].checks) IN
            /\ job[t].pos = k
            /\ job[t].updates = k
            /\ \A i \in 1..(k - 1) : job[t].checks[i].isVerified
            /\ (k >= 1 /\ ~job[t].checks[k].isVerified) =>
                  /\ job[t].status = "rejected"
                  /\ ~job[t].ended

\* C6 witness: a verify job was refused at its second record and rejected,
\* with a record of the file left unread
C6_Witness ==
    \E t \in Tables :
        /\ Verifying(t) /\ job[t].status = "rejected"
        /\ Len(job[t].checks) = 2
        /\ ~job[t].checks[2].isVerified
        /\ job[t].pos < Len(job[t].items)

\* C7: verify is rejected as soon as one of its three table jobs is, with
\* that job's failure (the other jobs may still be running); it is resolved
\* only when all three jobs have reached the end of their records with no
\* refusal.
C7_VerifyAggregates ==
    op.name = "verify" =>
        LET failed == {t \in Tables : job[t].status = "rejected"} IN
        /\ failed # {} => op.status = "rejected" /\ op.err \in failed
        /\ op.status = "rejected" => failed # {}
        /\ op.status = "resolved" =>
              \A t \in Tables :
                  /\ job[t].status = "resolved" /\ job[t].ended
                  /\ job[t].pos = Len(job[t].items)
                  /\ \A i \in 1..Len(job[t].checks) : job[t].checks[i].isVerified

\* C7 witness: verify is rejected with the one job that failed while
\* another job has records still to read
C7_Witness ==
    /\ op.name = "verify" /\ op.status = "rejected"
    /\ \E t \in Tables, u \in Tables :
          /\ op.err = t /\ job[t].status = "rejected"
          /\ Len(job[t].checks) >= 1
          /\ job[u].status = "running" /\ job[u].pos < Len(job[u].items)

\* the record a table job hands on for the record r decoded from the file
Normalized(t, r) ==
    IF t = "blocks" /\ r.key = 1 THEN Row(r.key, GenesisId, r.prev) ELSE r

\* C8: every record restore has buffered or bulk-saved, and every record
\* verify has passed to the predicate, is the record decoded from the file,
\* with the identifier replaced by the recomputed genesis identifier exactly
\* when it is a block at height 1.
C8_GenesisNormalization ==
    \A t \in Tables :
        /\ Restoring(t) =>
              LET seen == Flatten(job[t].saves) \o
                              (IF job[t].status = "resolved" THEN <<>>
                               ELSE job[t].entities)
              IN /\ Len(seen) <= Len(job[t].items)
                 /\ \A i \in 1..Len(seen) : seen[i] = Normalized(t, job[t].items[i])
                 /\ \A i \in 1..Len(db[t]) :
                       i <= Len(seen) => db[t][i] = seen[i]
        /\ Verifying(t) =>
              \A i \in 1..Len(job[t].checks) :
                  /\ job[t].checks[i].entity = Normalized(t, job[t].items[i])
                  /\ i > 1 => job[t].checks[i].previous
                                 = Normalized(t, job[t].items[i - 1])

\* C8 witness: the blocks table holds the genesis block with the recomputed
\* identifier although the file stored another, next to a block whose stored
\* identifier was kept
C8_Witness ==
    /\ Restoring("blocks")
    /\ Len(db["blocks"]) >= 2
    /\ job["blocks"].items[1].key = 1
    /\ job["blocks"].items[1].id = StaleId
    /\ db["blocks"][1].id = GenesisId
    /\ db["blocks"][2].id = job["blocks"].items[2].id

\* C9: when the blocks job of restore is rejected, restore is rejected with
\* it; then, and when the blocks job hangs, the transactions and rounds jobs
\* do not exist, those tables are empty, and blocks holds the full chunks
\* saved before.
C9_BlocksFailureStopsRestore ==
    (Restoring("blocks") /\ job["blocks"].status \in {"rejected", "stalled"}) =>
        /\ job["blocks"].status = "rejected" =>
              op.status = "rejected" /\ op.err = "blocks"
        /\ \A c \in Children :
              /\ job[c].kind = "none"
              /\ job[c].saves = <<>>
              /\ db[c] = <<>>
        /\ db["blocks"] = Flatten(job["blocks"].saves)
        /\ \A i \in 1..Len(job["blocks"].saves) :
              Len(job["blocks"].saves[i]) = chunkSize

\* C9 witness: the blocks job was rejected after a chunk had been saved
C9_Witness ==
    /\ Restoring("blocks") /\ job["blocks"].status = "rejected"
    /\ op.status = "rejected"
    /\ job["blocks"].saves # <<>>
    /\ db["blocks"] # <<>>

\* C10: truncate is at the delete of the blocks table only with the
\* transactions and the rounds table empty, and it resolves with all three
\* tables empty.
C10_TruncateOrder ==
    /\ truncPc = "blocks" =>
          \A c \in Children : db[c] = <<>>
    /\ (op.name = "truncate" /\ op.status = "resolved") =>
          /\ truncPc = "done"
          /\ \A t \in Tables : db[t] = <<>>
    /\ (op.name = "restore" /\ truncPc = "done" /\ job["blocks"].saves = <<>>) =>
          db["blocks"] = <<>>

\* C10 witness: truncate is about to delete a non-empty blocks table
C10_Witness ==
    /\ op.name = "truncate"
    /\ truncPc = "blocks"
    /\ Len(db["blocks"]) >= 2

\* C11: a truncate that is not hit by a storage fault resolves with all
\* three tables empty, also when it follows a truncate that did the same;
\* a truncate called on empty tables leaves them empty at every step and
\* fails only by such a fault.
C11_TruncateIdempotent ==
    op.name = "truncate" =>
        /\ op.status = "rejected" => truncPc = "failed" /\ budget.faults >= 1
        /\ op.status = "resolved" => \A t \in Tables : db[t] = <<>>
        /\ op.again => op.onEmpty
        /\ op.onEmpty => \A t \in Tables : db[t] = <<>>

\* C11 witness: a second truncate in a row has resolved
C11_Witness ==
    /\ op.name = "truncate" /\ op.status = "resolved"
    /\ op.again /\ op.onEmpty
    /\ budget.faults = 0
    /\ budget.events = MaxEvents - 2
    /\ \A t \in Tables : db[t] = <<>>

\* the lowest and highest height among the blocks the latest dump found
DumpedHeights == {dumped.rows["blocks"][i].key : i \in 1..Len(dumped.rows["blocks"])}
DumpedFirst == IF DumpedHeights = {} THEN NoHeight ELSE Lowest(DumpedHeights)
DumpedLast == IF DumpedHeights = {} THEN NoHeight ELSE Highest(DumpedHeights)

\* C12: in the metadata a dump has computed, every table's startHeight and
\* endHeight are the heights of the first and the last block by height (for
\* transactions and rounds too, empty or not), and every table's count is
\* the number of rows of that table.
C12_MetaDataHeights ==
    (op.name = "dump" /\ op.meta.written) =>
        \A t \in Tables :
            /\ op.meta[t].startHeight = DumpedFirst
            /\ op.meta[t].endHeight = DumpedLast
            /\ op.meta[t].startHeight = op.meta["blocks"].startHeight
            /\ op.meta[t].endHeight = op.meta["blocks"].endHeight
            /\ op.meta[t].count = Len(dumped.rows[t])

\* C12 witness: metadata computed over several blocks stored out of height
\* order, an empty transactions table and a non-empty rounds table
C12_Witness ==
    /\ op.name = "dump" /\ op.meta.written
    /\ op.meta["blocks"].count >= 2
    /\ op.meta["blocks"].endHeight > op.meta["blocks"].startHeight
    /\ dumped.rows["blocks"][1].key # op.meta["blocks"].startHeight
    /\ op.meta["transactions"].count = 0
    /\ op.meta["transactions"].endHeight = op.meta["blocks"].endHeight
    /\ op.meta["rounds"].count >= 1

\* C13 (as claimed): a table job whose codec lookup failed is rejected, and
\* its file stream was not created: no sink file was created or emptied, no
\* source file was opened.
C13_CodecFailureBeforeStreams ==
    \A t \in Tables :
        (job[t].kind # "none" /\ job[t].err = "throw") =>
            /\ job[t].status = "rejected"
            /\ ~job[t].opened

\* the block b is built from the row of the highest height among rows
IsLastBlockOf(b, rows) ==
    /\ \E i \in 1..Len(rows) : b = [data |-> rows[i]]
    /\ \A j \in 1..Len(rows) : b.data.key >= rows[j].key

\* C14: rollbackChain, once past the repository's rollback, leaves no row
\* above the round's last height; it resolves with the block built from the
\* highest row left, and it is rejected, with the not-found error, exactly
\* when it has settled with no block left (which includes the call that
\* finds no block to begin with).
C14_RollbackChain ==
    op.name = "rollbackChain" =>
        /\ op.pc \in {"return", "done"} =>
              \A t \in Tables : \A i \in 1..Len(db[t]) :
                  db[t][i].key <= op.roundInfo
        /\ op.status = "resolved" =>
              /\ op.pc = "done"
              /\ db["blocks"] # <<>>
              /\ IsLastBlockOf(op.result, db["blocks"])
        /\ op.status = "rejected" =>
              /\ op.pc \in {"getLastBlock", "done"}
              /\ op.err = "Cannot find last block"
              /\ db["blocks"] = <<>>
        /\ (op.status # "running" /\ db["blocks"] = <<>>) =>
              op.status = "rejected"

\* C14 witness: a rollback that removed blocks has returned the new last
\* block, lower than the last block before
C14_Witness ==
    /\ op.name = "rollbackChain" /\ op.status = "resolved"
    /\ op.result.data.key = op.roundInfo
    /\ op.lastRemainingBlock.data.key > op.result.data.key
    /\ Len(db["blocks"]) >= 2

\* C15: getLastBlock on an empty block table is rejected with the not-found
\* error and never calls the block factory; otherwise it resolves with the
\* block built, by one factory call, from the row of the highest height; the
\* step it takes changes no table.
C15_GetLastBlock ==
    /\ [](op.name = "getLastBlock" =>
            IF db["blocks"] = <<>>
            THEN /\ op.status = "rejected"
                 /\ op.err = "Cannot find last block"
                 /\ op.built = 0
                 /\ op.result = NoEntity
            ELSE /\ op.status = "resolved"
                 /\ op.built = 1
                 /\ IsLastBlockOf(op.result, db["blocks"]))
    /\ [][(op' # op /\ op'.name = "getLastBlock") => db' = db]_vars

\* C15 witness: getLastBlock returned the block of the highest height, which
\* is not the row stored last
C15_Witness ==
    /\ op.name = "getLastBlock" /\ op.status = "resolved"
    /\ Len(db["blocks"]) >= 2
    /\ op.result.data.key = Len(db["blocks"])
    /\ op.result.data # db["blocks"][Len(db["blocks"])]

\* C16: the predicate calls of a verify job are, in order, one for each
\* record consumed, in file order: call i has record i (a block at height 1
\* with the genesis identifier) as current; the first call has no previous
\* record, call i > 1 has as previous the current record of call i - 1; the
\* slot holds the current record of the last call that accepted.
C16_VerifyPairs ==
    \A t \in Tables :
        Verifying(t) =>
            LET calls == job[t].checks
                k == Len(calls)
            IN /\ k = job[t].pos
               /\ k <= Len(job[t].items)
               /\ \A i \in 1..k : calls[i].entity = Normalized(t, job[t].items[i])
               /\ k >= 1 => calls[1].previous = NoEntity
               /\ \A i \in 2..k : calls[i].previous = calls[i - 1].entity
               /\ job[t].previousEntity =
                      IF k = 0 THEN NoEntity
                      ELSE IF calls[k].isVerified THEN calls[k].entity
                      ELSE calls[k].previous

\* C16 witness: three blocks were verified; the second call received the
\* genesis block with the recomputed identifier, not the stored one
C16_Witness ==
    /\ Verifying("blocks") /\ job["blocks"].status = "resolved"
    /\ Len(job["blocks"].checks) = 3
    /\ job["blocks"].items[1].id = StaleId
    /\ job["blocks"].checks[2].previous.id = GenesisId
    /\ job["blocks"].checks[3].previous = job["blocks"].items[2]

\* C17 (as claimed): every table job of a dump, restore or verify call
\* looked up the codec name that was selected when the call was made, and
\* every restore or verify job decided on decompression by the flag as it was
\* when the call was made.
C17_CodecFixedPerCall ==
    op.name \in {"dump", "restore", "verify"} =>
        \A t \in Tables :
            (job[t].kind = op.name /\ job[t].status \notin {"idle", "starting"}) =>
                /\ job[t].codec = op.atStart.codec
                /\ (job[t].kind # "dump" /\ job[t].err # "throw") =>
                      job[t].skip = op.atStart.skipCompression

\* C18 (as claimed): the chunk buffer of a table restore never holds more
\* than chunkSize records, whatever chunkSize is configured, and it is empty
\* whenever the last thing the job did was a flush.
C18_BoundedChunkBuffer ==
    \A t \in Tables :
        Restoring(t) =>
            /\ Len(job[t].entities) <= chunkSize
            /\ (/\ job[t].status \in {"running", "resolved"}
                /\ job[t].saves # <<>>
                /\ Len(Flatten(job[t].saves)) = job[t].pos) =>
                  job[t].entities = <<>>

\* C19 (as claimed): the skipCompression value in the metadata a dump has
\* written says, for each of the three files of that dump, whether the file
\* was written without the gzip stage.
C19_RecordedCompression ==
    (op.name = "dump" /\ op.status = "resolved") =>
        \A t \in Tables :
            /\ disk[snapshot].files[t].exists
            /\ disk[snapshot].meta.skipCompression = ~disk[snapshot].files[t].gz

\* C20 (as claimed): every table job of restore(meta) or verify(meta) built
\* the path of its file from meta.folder, whatever folder an earlier call
\* had selected.
C20_ReadsFromMetaFolder ==
    op.name \in {"restore", "verify"} =>
        \A t \in Tables :
            (job[t].kind = op.name /\ job[t].folder # NoFolder) =>
                job[t].folder = op.meta.folder

TypeOK ==
    /\ codec \in KnownCodecs \cup {"bogus"}
    /\ skipCompression \in BOOLEAN
    /\ op.status \in {"idle", "running", "resolved", "rejected"}
    /\ \A t \in Tables :
          job[t].status \in {"idle", "starting", "running", "saving", "tail",
                             "resolved", "rejected", "stalled"}

====
